---------------------------- MODULE Spec2Model ----------------------------
(***************************************************************************)
(* A model of nox_poetry/poetry.py: the configuration reader (Config) and  *)
(* the command adapter (Poetry) with its export and build operations.      *)
(*                                                                         *)
(* Text (captured command output, version strings) is a sequence of        *)
(* one-character strings.  Command-line arguments are TLA+ strings.        *)
(* A Python Optional is a sequence of length at most one: <<>> is None and *)
(* <<x>> is the value x.                                                   *)
(***************************************************************************)
EXTENDS Naturals, Sequences, FiniteSets

\* ------------------------------------------------------------------ bounds
\* Longest list of groups passed to export.
MaxGroups == 2
\* Most fragments concatenated into one captured export output.
MaxFragments == 4
\* Most fragments concatenated into one captured build output.
MaxBuildFragments == 4
\* Most release components of an installed version (1, 1.2, 1.2.0).
MaxRelease == 3
\* Calls made on one adapter instance in one behaviour.
MaxCalls == 3

\* ---------------------------------------------------------------- optional
None == <<>>
Some(x) == <<x>>
IsNone(o) == o = <<>>
Get(o) == o[1]

\* -------------------------------------------------------------------- text
LF == "\n"
CR == "\r"
FF == "\f"
SP == " "
TAB == "\t"

\* The characters of the model's alphabet at which str.splitlines breaks a
\* line ("\r\n" counts as one break).
LineBoundaries == {LF, CR, FF}

\* The characters of the model's alphabet that str.split() treats as
\* whitespace.
Whitespace == {SP, TAB, LF, CR, FF}

\* The literal prefix tested by _stripwarnings.
WarningPrefix == <<"W", "a", "r", "n", "i", "n", "g", ":">>

RECURSIVE Join(_)
\* "".join(parts)
Join(parts) ==
    IF parts = <<>> THEN <<>> ELSE Head(parts) \o Join(Tail(parts))

\* The index of the first line boundary of s, 0 when it has none.
FirstBoundary(s) ==
    IF \E i \in 1..Len(s) : s[i] \in LineBoundaries
    THEN CHOOSE i \in 1..Len(s) :
             /\ s[i] \in LineBoundaries
             /\ \A j \in 1..(i - 1) : s[j] \notin LineBoundaries
    ELSE 0

RECURSIVE SplitLinesKeepEnds(_)
\* output.splitlines(keepends=True)
SplitLinesKeepEnds(s) ==
    IF s = <<>> THEN <<>>
    ELSE LET i == FirstBoundary(s)
         IN  IF i = 0 THEN <<s>>
             ELSE LET e == IF s[i] = CR /\ i < Len(s) /\ s[i + 1] = LF
                           THEN i + 1 ELSE i
                  IN  <<SubSeq(s, 1, e)>>
                          \o SplitLinesKeepEnds(SubSeq(s, e + 1, Len(s)))

\* StartsWith, had the test been `prefix in line`.
Contains(line, prefix) ==
    \E i \in 1..(Len(line) - Len(prefix) + 1) :
        SubSeq(line, i, i + Len(prefix) - 1) = prefix

\* line.startswith(prefix)
StartsWith(line, prefix) ==
    /\ Len(line) >= Len(prefix)
    /\ SubSeq(line, 1, Len(prefix)) = prefix

\* What print(line, file=sys.stderr) emits: the line followed by print's
\* own end="\n".
PrintEmits(line) == line \o <<LF>>

RECURSIVE StripWarnings(_)
\* The generator _stripwarnings, run to exhaustion: the lines it yields and
\* what it printed to sys.stderr on the way, one entry per print call.
StripWarnings(lines) ==
    IF lines = <<>> THEN [yielded |-> <<>>, printed |-> <<>>]
    ELSE LET line == Head(lines)
             rest == StripWarnings(Tail(lines))
         IN  IF StartsWith(line, WarningPrefix)
             THEN [yielded |-> rest.yielded,
                   printed |-> <<PrintEmits(line)>> \o rest.printed]
             ELSE [yielded |-> <<line>> \o rest.yielded,
                   printed |-> rest.printed]

RECURSIVE SplitWhitespace(_)
\* output.split(): the maximal runs of non-whitespace characters.
SplitWhitespace(s) ==
    IF s = <<>> THEN <<>>
    ELSE IF s[1] \in Whitespace THEN SplitWhitespace(Tail(s))
    ELSE LET n == IF \E i \in 1..Len(s) : s[i] \in Whitespace
                  THEN (CHOOSE i \in 1..Len(s) :
                            /\ s[i] \in Whitespace
                            /\ \A j \in 1..(i - 1) : s[j] \notin Whitespace) - 1
                  ELSE Len(s)
         IN  <<SubSeq(s, 1, n)>> \o SplitWhitespace(SubSeq(s, n + 1, Len(s)))


\* ----------------------------------------------------------------- version
DigitChars == <<"0", "1", "2", "3", "4", "5", "6", "7", "8", "9">>
IsDigit(c) == \E i \in 1..10 : DigitChars[i] = c
DigitValue(c) == (CHOOSE i \in 1..10 : DigitChars[i] = c) - 1

RECURSIVE FormatNat(_)
\* str(n) for a natural number: its decimal digits.
FormatNat(n) ==
    IF n < 10 THEN <<DigitChars[n + 1]>>
    ELSE FormatNat(n \div 10) \o <<DigitChars[(n % 10) + 1]>>

RECURSIVE FormatRelease(_)
FormatRelease(release) ==
    IF Len(release) = 1 THEN FormatNat(release[1])
    ELSE FormatNat(release[1]) \o <<".">> \o FormatRelease(Tail(release))

\* The pre-release tags of a version string, in precedence order.
PreLetters == <<<<"a">>, <<"b">>, <<"r", "c">>>>

\* The version string the package metadata holds for a distribution whose
\* release is the numbers `release` and whose pre-release tag is `pre`
\* (None, or <<k, n>> for the k-th tag of PreLetters and its number n):
\* "1.2.0", "1.10.0", "1.2.0rc1".
MetadataVersion(dist) ==
    FormatRelease(dist.release)
        \o (IF IsNone(dist.pre) THEN <<>>
            ELSE PreLetters[Get(dist.pre)[1]] \o FormatNat(Get(dist.pre)[2]))

RECURSIVE ParseNat(_)
\* int(digits)
ParseNat(digits) ==
    IF Len(digits) = 1 THEN DigitValue(digits[1])
    ELSE 10 * ParseNat(SubSeq(digits, 1, Len(digits) - 1))
             + DigitValue(digits[Len(digits)])

RECURSIVE ParseRelease(_)
\* tuple(int(i) for i in release.split("."))
ParseRelease(s) ==
    LET n == IF \E i \in 1..Len(s) : s[i] = "."
             THEN (CHOOSE i \in 1..Len(s) :
                       s[i] = "." /\ \A j \in 1..(i - 1) : s[j] # ".") - 1
             ELSE Len(s)
    IN  IF n = Len(s) THEN <<ParseNat(s)>>
        ELSE <<ParseNat(SubSeq(s, 1, n))>>
                 \o ParseRelease(SubSeq(s, n + 2, Len(s)))

\* Version(text): the release segment (digits and dots) and the optional
\* pre-release segment (a tag and its number) of a version string.
ParseVersion(text) ==
    LET n == IF \E i \in 1..Len(text) : ~IsDigit(text[i]) /\ text[i] # "."
             THEN (CHOOSE i \in 1..Len(text) :
                       /\ ~IsDigit(text[i]) /\ text[i] # "."
                       /\ \A j \in 1..(i - 1) : IsDigit(text[j]) \/ text[j] = ".") - 1
             ELSE Len(text)
        tail == SubSeq(text, n + 1, Len(text))
        l == IF tail = <<>> THEN 0
             ELSE (CHOOSE i \in 1..Len(tail) :
                       IsDigit(tail[i]) /\ \A j \in 1..(i - 1) : ~IsDigit(tail[j])) - 1
    IN  [release |-> ParseRelease(SubSeq(text, 1, n)),
         pre |-> IF tail = <<>> THEN None
                 ELSE Some(<<CHOOSE k \in 1..Len(PreLetters) :
                                 PreLetters[k] = SubSeq(tail, 1, l),
                             ParseNat(SubSeq(tail, l + 1, Len(tail)))>>)]

RECURSIVE StripTrailingZeros(_)
\* The release with its trailing zeros dropped, as Version's comparison key
\* holds it: 1.2.0 and 1.2 compare equal.
StripTrailingZeros(release) ==
    IF release # <<>> /\ release[Len(release)] = 0
    THEN StripTrailingZeros(SubSeq(release, 1, Len(release) - 1))
    ELSE release

RECURSIVE TupleLess(_, _)
\* Python's a < b on tuples of integers: lexicographic, a proper prefix is
\* smaller.
TupleLess(a, b) ==
    IF b = <<>> THEN FALSE
    ELSE IF a = <<>> THEN TRUE
    ELSE IF a[1] # b[1] THEN a[1] < b[1]
    ELSE TupleLess(Tail(a), Tail(b))

\* a < b on the pre-release part of the comparison key: a final release (no
\* tag) sorts after every pre-release of the same release.
PreLess(a, b) ==
    IF IsNone(a) THEN FALSE
    ELSE IF IsNone(b) THEN TRUE
    ELSE TupleLess(Get(a), Get(b))

\* Version.__lt__ on the comparison keys of two parsed versions.
VersionLess(v, w) ==
    LET rv == StripTrailingZeros(v.release)
        rw == StripTrailingZeros(w.release)
    IN  \/ TupleLess(rv, rw)
        \/ rv = rw /\ PreLess(v.pre, w.pre)

\* Version.__ge__
VersionGE(v, w) == ~VersionLess(v, w)

\* Config.MINIMUM_VERSION_SUPPORTING_GROUP_DEPS = Version("1.2.0")
MINIMUM_VERSION_SUPPORTING_GROUP_DEPS ==
    ParseVersion(<<"1", ".", "2", ".", "0">>)

\* Config.version(): Version(metadata.version("poetry")), for the installed
\* distribution dist.
version(dist) == ParseVersion(MetadataVersion(dist))

\* The characters of a version string, in code point order.
CharOrder ==
    <<".", "0", "1", "2", "3", "4", "5", "6", "7", "8", "9", "a", "b", "c",
      "r">>
CodePoint(c) == CHOOSE i \in 1..Len(CharOrder) : CharOrder[i] = c

RECURSIVE TextLess(_, _)
\* Python's a < b on strings.
TextLess(a, b) ==
    IF b = <<>> THEN FALSE
    ELSE IF a = <<>> THEN TRUE
    ELSE IF a[1] # b[1] THEN CodePoint(a[1]) < CodePoint(b[1])
    ELSE TextLess(Tail(a), Tail(b))

\* is_compatible_with_group_deps, had it compared the version strings and
\* not the parsed versions.
is_compatible_comparing_text(dist) ==
    ~TextLess(MetadataVersion(dist), <<"1", ".", "2", ".", "0">>)

\* Config.is_compatible_with_group_deps(), for the installed distribution.
is_compatible_with_group_deps(dist) ==
    VersionGE(version(dist), MINIMUM_VERSION_SUPPORTING_GROUP_DEPS)

\* ------------------------------------------------------------------- state
VARIABLES
    manifest,    \* pyproject.toml in the project directory: None when the
                 \* file is absent, else Some(its tool.poetry table)
    installed,   \* the poetry distribution in the environment: None when not
                 \* installed, else Some([release, pre])
    session,     \* what the session's run_always returns for a command:
                 \* None when it skips it, else Some(captured output)
    _config,     \* Poetry._config: None, or Some(reader)
    loads,       \* Config objects constructed so far
    calls,       \* export and build calls made so far
    call,        \* the latest call: its arguments, the commands it had the
                 \* session run, what it raised or returned
    stderr,      \* what the latest call printed to sys.stderr, one entry
                 \* per print
    prevDevFlag  \* history: the flag the previous executed export without
                 \* groups chose, None when there was none

vars == <<manifest, installed, session, _config, loads, calls, call, stderr,
          prevDevFlag>>

\* ---------------------------------------------------------------- manifest
\* The "extras" entry of a tool.poetry table: absent, a table whose keys are
\* `keys` in file order, or a value that is no table.
ExtrasAbsent == [present |-> FALSE, mapping |-> FALSE, keys |-> <<>>]
ExtrasTable(keys) == [present |-> TRUE, mapping |-> TRUE, keys |-> keys]
ExtrasNotATable == [present |-> TRUE, mapping |-> FALSE, keys |-> <<>>]

Manifests ==
    {None}
        \cup {Some([name |-> "foobar", extras |-> e]) :
                e \in {ExtrasAbsent, ExtrasNotATable, ExtrasTable(<<>>),
                       ExtrasTable(<<"x">>), ExtrasTable(<<"x", "y">>),
                       ExtrasTable(<<"y", "x">>)}}

\* Config.__init__ for the project directory: read and parse the manifest,
\* keep its tool.poetry table.  `n` numbers the object constructed.
Config(n) ==
    IF IsNone(manifest)
    THEN [raised |-> "FileNotFoundError", reader |-> None]
    ELSE [raised |-> "", reader |-> Some([id |-> n, _config |-> Get(manifest)])]

\* Config.extras of a reader: the keys of its extras table, in order.
extras(reader) ==
    LET e == reader._config.extras
    IN  IF ~e.present THEN [raised |-> "", list |-> <<>>]
        ELSE IF ~e.mapping THEN [raised |-> "AssertionError", list |-> <<>>]
        ELSE [raised |-> "", list |-> e.keys]

\* Poetry.config, had it not kept the reader: every access constructs one.
configReloading ==
    LET c == Config(loads + 1)
    IN  IF c.raised # ""
        THEN [raised |-> c.raised, field |-> _config, loads |-> loads]
        ELSE [raised |-> "", field |-> c.reader, loads |-> loads + 1]

\* The property Poetry.config: the reader, constructed on first access.
\* Gives what the access raised, the reader it returned and the new values
\* of _config and loads.
config ==
    IF IsNone(_config)
    THEN LET c == Config(loads + 1)
         IN  IF c.raised # ""
             THEN [raised |-> c.raised, field |-> _config, loads |-> loads]
             ELSE [raised |-> "", field |-> c.reader, loads |-> loads + 1]
    ELSE [raised |-> "", field |-> _config, loads |-> loads]

\* ---------------------------------------------------------------- commands
\* ExtrasFlags, had the extras been walked last to first.
ExtrasFlagsReversed(list) ==
    [i \in 1..Len(list) |-> "--extras=" \o list[Len(list) + 1 - i]]

\* f"--extras={extra}" for each extra, in order.
ExtrasFlags(list) == [i \in 1..Len(list) |-> "--extras=" \o list[i]]

\* f"--only={group}" for each group, in order.
OnlyFlags(groups) == [i \in 1..Len(groups) |-> "--only=" \o groups[i]]

\* The flag an executed export without groups chose, None for any other
\* call.
DevFlagOf(c) ==
    IF c.op = "export" /\ c.args # <<>>
           /\ (IsNone(c.groups) \/ Get(c.groups) = <<>>)
    THEN Some(c.args[1][Len(c.args[1])])
    ELSE None

\* GroupFlags, had export tested `groups is not None` where it tests the
\* truth of groups: an empty list then selects no group at all.
GroupFlagsNotNone(groups) ==
    IF ~IsNone(groups)
    THEN [raised |-> "", flags |-> OnlyFlags(Get(groups))]
    ELSE IF IsNone(installed)
    THEN [raised |-> "PackageNotFoundError", flags |-> <<>>]
    ELSE IF is_compatible_with_group_deps(Get(installed))
    THEN [raised |-> "", flags |-> <<"--with=dev">>]
    ELSE [raised |-> "", flags |-> <<"--dev">>]

\* GroupFlags, had the compatibility check been memoized: the answer of the
\* first export without groups is reused by the later ones.
GroupFlagsMemoized(groups) ==
    IF ~IsNone(groups) /\ Get(groups) # <<>>
    THEN [raised |-> "", flags |-> OnlyFlags(Get(groups))]
    ELSE IF ~IsNone(prevDevFlag)
    THEN [raised |-> "", flags |-> prevDevFlag]
    ELSE IF ~IsNone(DevFlagOf(call))
    THEN [raised |-> "", flags |-> DevFlagOf(call)]
    ELSE IF IsNone(installed)
    THEN [raised |-> "PackageNotFoundError", flags |-> <<>>]
    ELSE IF is_compatible_with_group_deps(Get(installed))
    THEN [raised |-> "", flags |-> <<"--with=dev">>]
    ELSE [raised |-> "", flags |-> <<"--dev">>]

\* The group-selection step of export: the flags to append, or the
\* exception of the version lookup.
GroupFlags(groups) ==
    IF ~IsNone(groups) /\ Get(groups) # <<>>
    THEN [raised |-> "", flags |-> OnlyFlags(Get(groups))]
    ELSE IF IsNone(installed)
    THEN [raised |-> "PackageNotFoundError", flags |-> <<>>]
    ELSE IF is_compatible_with_group_deps(Get(installed))
    THEN [raised |-> "", flags |-> <<"--with=dev">>]
    ELSE [raised |-> "", flags |-> <<"--dev">>]

\* The argument list of the export command.
ExportArgs(extraList, groupFlags) ==
    <<"poetry", "export", "--format=requirements.txt">>
        \o ExtrasFlags(extraList)
        \o <<"--without-hashes">>
        \o groupFlags

\* The messages of the two CommandSkippedError, written without the
\* backquotes the source puts around the command and the option.
ExportSkippedMessage ==
    "The command poetry export was not executed"
        \o " (a possible cause is specifying --no-install)"

BuildSkippedMessage ==
    "The command poetry build was not executed"
        \o " (a possible cause is specifying --no-install)"

\* The record of a call.  args holds the argument list of each command the
\* call had the session run; raised is the exception it ended with ("" when
\* it returned); value is None unless it returned.
CallRecord(op, groups, format, args, output, raised, message, value) ==
    [op |-> op, groups |-> groups, format |-> format, args |-> args,
     output |-> output, raised |-> raised, message |-> message,
     value |-> value]

NoFormat == [member |-> FALSE, text |-> ""]

\* ExportOutput, had export not tested the return for None and taken a
\* skipped command for one that printed nothing.
ExportOutputSkipAsEmpty(output) ==
    LET r == StripWarnings(SplitLinesKeepEnds(IF IsNone(output) THEN <<>>
                                              ELSE Get(output)))
    IN  [raised |-> "", message |-> "", value |-> Some(Join(r.yielded)),
         printed |-> r.printed]

\* The end of export, from the return of run_always on: a skipped command
\* raises, a captured output is split into lines and stripped of warnings.
ExportOutput(output) ==
    IF IsNone(output)
    THEN [raised |-> "CommandSkippedError", message |-> ExportSkippedMessage,
          value |-> None, printed |-> <<>>]
    ELSE LET r == StripWarnings(SplitLinesKeepEnds(Get(output)))
         IN  [raised |-> "", message |-> "", value |-> Some(Join(r.yielded)),
              printed |-> r.printed]

\* Poetry.export(groups): what it raises or returns, what it prints, and
\* what it leaves in _config.
ExportResult(groups) ==
    LET c == config
        Failed(raised) ==
            [field |-> c.field, loads |-> c.loads, printed |-> <<>>,
             call |-> CallRecord("export", groups, NoFormat, <<>>, None,
                                 raised, "", None)]
    IN  IF c.raised # "" THEN Failed(c.raised)
        ELSE
        LET e == extras(Get(c.field))
        IN  IF e.raised # "" THEN Failed(e.raised)
            ELSE
            LET g == GroupFlags(groups)
            IN  IF g.raised # "" THEN Failed(g.raised)
                ELSE
                LET args == ExportArgs(e.list, g.flags)
                    output == session
                    r == ExportOutput(output)
                IN  [field |-> c.field, loads |-> c.loads,
                     printed |-> r.printed,
                     call |-> CallRecord("export", groups, NoFormat,
                                         <<args>>, output, r.raised,
                                         r.message, r.value)]

Export(groups) ==
    /\ calls < MaxCalls
    /\ LET r == ExportResult(groups)
       IN  /\ _config' = r.field
           /\ loads' = r.loads
           /\ call' = r.call
           /\ stderr' = r.printed
    /\ calls' = calls + 1
    /\ prevDevFlag' = IF IsNone(DevFlagOf(call)) THEN prevDevFlag
                      ELSE DevFlagOf(call)
    /\ UNCHANGED <<manifest, installed, session>>

\* class DistributionFormat(str, Enum): the members and their values.
DistributionFormat == [WHEEL |-> "wheel", SDIST |-> "sdist"]

\* A format argument: a member of the enumeration (text is its value), or a
\* plain string.
FormatMember(name) == [member |-> TRUE, text |-> DistributionFormat[name]]
FormatText(text) == [member |-> FALSE, text |-> text]

\* CoerceFormat, had build used the string as given.
CoerceFormatUnchecked(format) == [raised |-> "", value |-> format.text]

\* The first two statements of build: a plain string is looked up among the
\* members' values.
CoerceFormat(format) ==
    IF format.member THEN [raised |-> "", value |-> format.text]
    ELSE IF \E m \in DOMAIN DistributionFormat :
                DistributionFormat[m] = format.text
    THEN [raised |-> "", value |-> format.text]
    ELSE [raised |-> "ValueError", value |-> ""]

\* The argument list of the build command.
BuildArgs(value) == <<"poetry", "build", "--format=" \o value, "--no-ansi">>

\* LastToken, had build taken the first token: output.split()[0].
FirstToken(output) ==
    LET tokens == SplitWhitespace(output)
    IN  IF tokens = <<>> THEN [raised |-> "IndexError", value |-> None]
        ELSE [raised |-> "", value |-> Some(tokens[1])]

\* output.split()[-1]
LastToken(output) ==
    LET tokens == SplitWhitespace(output)
    IN  IF tokens = <<>> THEN [raised |-> "IndexError", value |-> None]
        ELSE [raised |-> "", value |-> Some(tokens[Len(tokens)])]

\* The end of build, from the return of run_always on.
BuildOutput(output) ==
    IF IsNone(output)
    THEN [raised |-> "CommandSkippedError", message |-> BuildSkippedMessage,
          value |-> None]
    ELSE LET t == LastToken(Get(output))
         IN  [raised |-> t.raised, message |-> "", value |-> t.value]

\* Poetry.build(format=format): the record of the call.
BuildResult(format) ==
    LET f == CoerceFormat(format)
    IN  IF f.raised # ""
        THEN CallRecord("build", None, format, <<>>, None, f.raised, "", None)
        ELSE
        LET args == BuildArgs(f.value)
            output == session
            r == BuildOutput(output)
        IN  CallRecord("build", None, format, <<args>>, output, r.raised,
                       r.message, r.value)

Build(format) ==
    /\ calls < MaxCalls
    /\ call' = BuildResult(format)
    /\ stderr' = <<>>
    /\ calls' = calls + 1
    /\ prevDevFlag' = IF IsNone(DevFlagOf(call)) THEN prevDevFlag
                      ELSE DevFlagOf(call)
    /\ UNCHANGED <<manifest, installed, session, _config, loads>>

\* A direct call of the class method Config.is_compatible_with_group_deps.
IsCompatibleWithGroupDeps ==
    /\ call' = IF IsNone(installed)
               THEN CallRecord("is_compatible_with_group_deps", None,
                               NoFormat, <<>>, None, "PackageNotFoundError",
                               "", None)
               ELSE CallRecord("is_compatible_with_group_deps", None,
                               NoFormat, <<>>, None, "", "",
                               Some(is_compatible_with_group_deps(
                                        Get(installed))))
    /\ UNCHANGED <<manifest, installed, session, _config, loads, calls,
                   stderr, prevDevFlag>>

\* ------------------------------------------------------------- environment
\* Another poetry is installed into (or poetry is removed from) the
\* environment between two calls.
InstallPoetry(dist) ==
    /\ installed # dist
    /\ installed' = dist
    /\ UNCHANGED <<manifest, session, _config, loads, calls, call, stderr,
                   prevDevFlag>>

\* The session answers the next command differently: it skips it, or the
\* command prints something else.
SessionReturns(output) ==
    /\ session # output
    /\ session' = output
    /\ UNCHANGED <<manifest, installed, _config, loads, calls, call, stderr,
                   prevDevFlag>>

\* ------------------------------------------------------------------ inputs
RECURSIVE SeqsUpTo(_, _)
\* The sequences over S of length at most n.
SeqsUpTo(S, n) ==
    IF n = 0 THEN {<<>>}
    ELSE LET shorter == SeqsUpTo(S, n - 1)
         IN  shorter \cup {Append(q, x) : q \in shorter, x \in S}

GroupNames == {"a", "b"}
GroupArgs == {None} \cup {Some(g) : g \in SeqsUpTo(GroupNames, MaxGroups)}

Formats ==
    {FormatMember(m) : m \in DOMAIN DistributionFormat}
        \cup {FormatText(t) : t \in {"wheel", "sdist", "zip", "WHEEL", ""}}

Dist(release, pre) == [release |-> release, pre |-> pre]

\* The numbers a release component takes.
ComponentValues == {0, 1, 2, 3, 9, 10}

\* Pre-release tags: none, a1, rc1.
PreTags == {None, Some(<<1, 1>>), Some(<<3, 1>>)}

AllDists ==
    {Dist(r, p) : r \in SeqsUpTo(ComponentValues, MaxRelease) \ {<<>>},
                  p \in PreTags}

\* 1.1.9, 1.2.0, 1.10.0, 1.2.0rc1, or no poetry at all.
SomeInstalled ==
    {None, Some(Dist(<<1, 1, 9>>, None)), Some(Dist(<<1, 2, 0>>, None)),
     Some(Dist(<<1, 10, 0>>, None)), Some(Dist(<<1, 2, 0>>, Some(<<3, 1>>)))}

\* The texts made of at most n of the given fragments.
Texts(fragments, n) == {Join(q) : q \in SeqsUpTo(fragments, n)}

ExportFragments ==
    {WarningPrefix, <<"W", "a", "r", "n">>, <<"x">>, <<SP>>, <<LF>>, <<CR>>}

BuildFragments ==
    {<<"f", ".", "w", "h", "l">>, <<"B", "u", "i", "l", "t">>, <<SP>>,
     <<LF>>, <<TAB>>}

\* Skipped; no output; a warning line and a requirement; poetry build's
\* last line.
SomeOutputs ==
    {None, Some(<<>>),
     Some(WarningPrefix \o <<SP, "w", LF, "x", "=", "=", "1", LF>>),
     Some(<<SP, "-", SP, "B", "u", "i", "l", "t", SP, "f", ".", "w", "h", "l",
            LF>>)}

\* ----------------------------------------------------------- specification
NoCall == CallRecord("", None, NoFormat, <<>>, None, "", "", None)

InitAdapter ==
    /\ _config = None
    /\ loads = 0
    /\ calls = 0
    /\ call = NoCall
    /\ stderr = <<>>
    /\ prevDevFlag = None

Init ==
    /\ manifest \in Manifests
    /\ installed \in SomeInstalled
    /\ session \in SomeOutputs
    /\ InitAdapter

Next ==
    \/ \E groups \in GroupArgs : Export(groups)
    \/ \E format \in Formats : Build(format)
    \/ IsCompatibleWithGroupDeps
    \/ \E dist \in SomeInstalled : InstallPoetry(dist)
    \/ \E output \in SomeOutputs : SessionReturns(output)

Spec == Init /\ [][Next]_vars

\* One adapter in a fixed environment, given any captured export output.
InitExportText ==
    /\ manifest = Some([name |-> "foobar", extras |-> ExtrasTable(<<"x">>)])
    /\ installed = Some(Dist(<<1, 2, 0>>, None))
    /\ session \in {None}
                     \cup {Some(t) : t \in Texts(ExportFragments, MaxFragments)}
    /\ InitAdapter

NextExportText == \E groups \in {None, Some(<<"a">>)} : Export(groups)

SpecExportText == InitExportText /\ [][NextExportText]_vars

\* One adapter in a fixed environment, given any captured build output.
InitBuildText ==
    /\ manifest = Some([name |-> "foobar", extras |-> ExtrasAbsent])
    /\ installed = Some(Dist(<<1, 2, 0>>, None))
    /\ session \in {None}
                     \cup {Some(t) : t \in Texts(BuildFragments,
                                                 MaxBuildFragments)}
    /\ InitAdapter

NextBuildText == \E format \in Formats : Build(format)

SpecBuildText == InitBuildText /\ [][NextBuildText]_vars

\* The compatibility check, for any installed version.
InitVersion ==
    /\ manifest = None
    /\ installed \in {Some(d) : d \in AllDists}
    /\ session = None
    /\ InitAdapter

NextVersion == IsCompatibleWithGroupDeps

SpecVersion == InitVersion /\ [][NextVersion]_vars

\* ------------------------------------------------------------------ claims
\* Whether a distribution's version is at least 1.2.0, read off its numbers:
\* the release compared number by number, missing components counting as 0,
\* and a pre-release of 1.2.0 itself counting as earlier than 1.2.0.
AtLeastMinimum(dist) ==
    LET r == dist.release
        c(i) == IF i <= Len(r) THEN r[i] ELSE 0
    IN  \/ c(1) > 1
        \/ c(1) = 1 /\ c(2) > 2
        \/ c(1) = 1 /\ c(2) = 2 /\ \E i \in 3..Len(r) : r[i] > 0
        \/ c(1) = 1 /\ c(2) = 2 /\ (\A i \in 3..Len(r) : r[i] = 0)
               /\ IsNone(dist.pre)

\* A step in which export had the session run its command.
ExportRan == calls' = calls + 1 /\ call'.op = "export" /\ call'.args # <<>>

\* The arguments that follow --without-hashes.
AfterWithoutHashes(argv) ==
    LET i == CHOOSE k \in 1..Len(argv) : argv[k] = "--without-hashes"
    IN  SubSeq(argv, i + 1, Len(argv))

IsOnlyFlag(arg) == \E n \in GroupNames : arg = "--only=" \o n
HasGroups(groups) == ~IsNone(groups) /\ Get(groups) # <<>>

\* C1: in every export command that is executed, the flags after
\* --without-hashes are one --only=<group> per named group, in the order
\* given, and neither --dev nor --with=dev, when groups is given and not
\* empty; otherwise the single flag --with=dev when the installed version is
\* at least 1.2.0 and the single flag --dev when it is not. Exactly one of
\* the three shapes occurs in the command.
C1_GroupFlagPriority ==
    [][ExportRan =>
        LET argv == call'.args[1]
            tail == AfterWithoutHashes(argv)
            groups == call'.groups
            shapes == {"--only" : k \in {j \in 1..Len(argv) : IsOnlyFlag(argv[j])}}
                        \cup {argv[k] : k \in {j \in 1..Len(argv) :
                                        argv[j] \in {"--dev", "--with=dev"}}}
        IN  /\ IF HasGroups(groups)
               THEN /\ tail = [i \in 1..Len(Get(groups)) |->
                                   "--only=" \o Get(groups)[i]]
                    /\ \A k \in 1..Len(argv) :
                           argv[k] \notin {"--dev", "--with=dev"}
               ELSE /\ ~IsNone(installed)
                    /\ IF AtLeastMinimum(Get(installed))
                       THEN tail = <<"--with=dev">>
                       ELSE tail = <<"--dev">>
            /\ Cardinality(shapes) = 1]_vars

\* An export of two groups ran with --only=a --only=b although the installed
\* version supports groups.
C1_Witness ==
    /\ call.op = "export"
    /\ call.groups = Some(<<"a", "b">>)
    /\ call.args # <<>>
    /\ AfterWithoutHashes(call.args[1]) = <<"--only=a", "--only=b">>
    /\ ~IsNone(installed) /\ AtLeastMinimum(Get(installed))

\* C6: is_compatible_with_group_deps returns true exactly when the installed
\* version is at least 1.2.0, its components compared as numbers.
C6_CompatibleIffAtLeastMinimum ==
    (call.op = "is_compatible_with_group_deps" /\ call.raised = "")
        => Get(call.value) = AtLeastMinimum(Get(installed))

\* The check answered true for 1.10.0, which sorts before 1.2.0 as a string.
C6_Witness ==
    /\ call.op = "is_compatible_with_group_deps"
    /\ installed = Some(Dist(<<1, 10, 0>>, None))
    /\ call.value = Some(TRUE)

\* C10: an export without groups that reuses the reader chooses its flag
\* from the version installed at the time of that call; when that version
\* is on the other side of 1.2.0 than the one the previous call saw, the
\* flag differs from the previous call's.
C10_VersionReadAtEachCall ==
    [][(ExportRan /\ ~HasGroups(call'.groups) /\ ~IsNone(_config)) =>
        /\ _config' = _config
        /\ ~IsNone(installed)
        /\ DevFlagOf(call') =
               Some(IF AtLeastMinimum(Get(installed)) THEN "--with=dev"
                    ELSE "--dev")
        /\ (/\ ~IsNone(DevFlagOf(call))
            /\ (DevFlagOf(call) = Some("--with=dev"))
                   # AtLeastMinimum(Get(installed)))
               => DevFlagOf(call') # DevFlagOf(call)]_vars

\* Two exports without groups on one adapter, one reader: the earlier chose
\* --dev, the later --with=dev.
C10_Witness ==
    /\ prevDevFlag = Some("--dev")
    /\ DevFlagOf(call) = Some("--with=dev")
    /\ loads = 1
    /\ ~IsNone(_config)

\* The message of a CommandSkippedError that names the command cmd.
SkippedMessageNaming(cmd) ==
    "The command " \o cmd \o " was not executed"
        \o " (a possible cause is specifying --no-install)"

\* C3: when the session skips the command (run_always returns None), export
\* raises CommandSkippedError naming poetry export and build raises it naming
\* poetry build; the call returns no value and prints nothing to stderr.
C3_SkippedCommandRaises ==
    (call.op \in {"export", "build"} /\ call.args # <<>>
         /\ IsNone(call.output))
        => /\ call.raised = "CommandSkippedError"
           /\ call.message = SkippedMessageNaming("poetry " \o call.op)
           /\ call.message
                  = SkippedMessageNaming(call.args[1][1] \o " " \o call.args[1][2])
           /\ IsNone(call.value)
           /\ stderr = <<>>

\* An export whose command the session skipped.
C3_Witness ==
    /\ call.op = "export"
    /\ call.args # <<>>
    /\ IsNone(call.output)
    /\ call.raised = "CommandSkippedError"
    /\ call.message = ExportSkippedMessage

\* C5: build with a format other than wheel and sdist raises ValueError
\* without having the session run anything; with wheel or sdist it has the
\* session run poetry build --format=<that value> --no-ansi.
C5_FormatValidatedBeforeRun ==
    call.op = "build"
        => IF call.format.text \in {"wheel", "sdist"}
           THEN call.args = <<<<"poetry", "build",
                                "--format=" \o call.format.text, "--no-ansi">>>>
           ELSE /\ call.raised = "ValueError"
                /\ call.args = <<>>
                /\ IsNone(call.value)

\* build(format="zip") raised ValueError and ran nothing.
C5_Witness ==
    /\ call.op = "build"
    /\ call.format = FormatText("zip")
    /\ call.raised = "ValueError"
    /\ call.args = <<>>

\* The extras the manifest declares, in file order.
DeclaredExtras ==
    IF Get(manifest).extras.present THEN Get(manifest).extras.keys ELSE <<>>

\* C7: the command export executes is poetry export
\* --format=requirements.txt, then one --extras=<name> per extra the
\* manifest declares, in their order, then --without-hashes, then only
\* group-selection flags.
C7_ExportCommandOrder ==
    (call.op = "export" /\ call.args # <<>>)
        => LET argv == call.args[1]
               n == Len(DeclaredExtras)
           IN  /\ Len(argv) >= n + 5
               /\ SubSeq(argv, 1, 3)
                      = <<"poetry", "export", "--format=requirements.txt">>
               /\ \A i \in 1..n : argv[3 + i] = "--extras=" \o DeclaredExtras[i]
               /\ argv[n + 4] = "--without-hashes"
               /\ \A k \in (n + 5)..Len(argv) :
                      IsOnlyFlag(argv[k]) \/ argv[k] \in {"--dev", "--with=dev"}

\* An export ran for a manifest declaring y before x.
C7_Witness ==
    /\ call.op = "export"
    /\ call.args # <<>>
    /\ DeclaredExtras = <<"y", "x">>
    /\ SubSeq(call.args[1], 4, 6)
           = <<"--extras=y", "--extras=x", "--without-hashes">>

\* C8: at most one reader is ever constructed; once _config holds a reader
\* it keeps that reader; a build call neither constructs a reader nor
\* touches _config; a reader is constructed only by an export call that
\* found _config empty.
C8_ReaderCreatedOnceAndKept ==
    [][/\ loads' <= 1
       /\ ~IsNone(_config) => _config' = _config
       /\ (calls' = calls + 1 /\ call'.op = "build")
              => (_config' = _config /\ loads' = loads)
       /\ loads' # loads
              => /\ IsNone(_config) /\ ~IsNone(_config')
                 /\ calls' = calls + 1 /\ call'.op = "export"]_vars

\* Three calls on one adapter, the last two of them exports that ran their
\* command, and still the first reader.
C8_Witness ==
    /\ calls = 3
    /\ loads = 1
    /\ ~IsNone(_config) /\ Get(_config).id = 1
    /\ ~IsNone(prevDevFlag)
    /\ call.op = "export" /\ call.args # <<>>

\* Whether a line begins with the eight characters Warning:
BeginsWithWarning(line) ==
    /\ Len(line) >= 8
    /\ <<line[1], line[2], line[3], line[4], line[5], line[6], line[7],
         line[8]>> = <<"W", "a", "r", "n", "i", "n", "g", ":">>

NotWarning(line) == ~BeginsWithWarning(line)

\* Whether `lines` are the lines of `text`, terminators retained: they
\* concatenate to the text, none is empty, a line boundary occurs only at
\* the end of a line (CR LF being one boundary), and every line but the
\* last ends with one.
AreLinesOf(lines, text) ==
    /\ Join(lines) = text
    /\ \A i \in 1..Len(lines) :
           LET l == lines[i]
               n == Len(l)
           IN  /\ n > 0
               /\ \A j \in 1..(n - 1) :
                      l[j] \in LineBoundaries
                          => j = n - 1 /\ l[j] = CR /\ l[n] = LF
               /\ i < Len(lines) => l[n] \in LineBoundaries
               /\ (i < Len(lines) /\ l[n] = CR) => lines[i + 1][1] # LF

\* An export that returned a text.
ExportReturned ==
    call.op = "export" /\ call.raised = "" /\ ~IsNone(call.value)
        /\ ~IsNone(call.output)

\* C2: no line of the text export returns begins with Warning:, and what
\* the call wrote to stderr is exactly the lines of the captured output
\* that begin with Warning:, in their order, nothing added or removed.
C2_WarningsDivertedVerbatim ==
    ExportReturned
        => /\ \A l \in {SplitLinesKeepEnds(Get(call.value))[i] :
                          i \in 1..Len(SplitLinesKeepEnds(Get(call.value)))} :
                  NotWarning(l)
           /\ stderr = SelectSeq(SplitLinesKeepEnds(Get(call.output)),
                                 BeginsWithWarning)

\* C9: the text export returns is the concatenation, in order and with
\* their terminators, of the lines of the captured output that do not begin
\* with Warning:; an output without such a line is returned unchanged; and
\* filtering the returned text again returns it unchanged.
C9_ReturnsNonWarningLines ==
    ExportReturned
        => LET output == Get(call.output)
               lines == SplitLinesKeepEnds(output)
           IN  /\ AreLinesOf(lines, output)
               /\ Get(call.value) = Join(SelectSeq(lines, NotWarning))
               /\ (\A i \in 1..Len(lines) : NotWarning(lines[i]))
                      => call.value = call.output
               /\ ExportOutput(call.value).value = call.value

\* An export dropped the warning line between a line ending in CR and an
\* empty line ending in LF, and returned the two joined.
C9_Witness ==
    /\ ExportReturned
    /\ Get(call.output) = <<CR>> \o WarningPrefix \o <<LF, LF>>
    /\ Get(call.value) = <<CR, LF>>

\* Whether token is the last whitespace-delimited token of text.
IsFinalToken(token, text) ==
    /\ token # <<>>
    /\ \A i \in 1..Len(token) : token[i] \notin Whitespace
    /\ \E p \in 1..Len(text) :
           /\ p + Len(token) - 1 <= Len(text)
           /\ SubSeq(text, p, p + Len(token) - 1) = token
           /\ p > 1 => text[p - 1] \in Whitespace
           /\ \A j \in (p + Len(token))..Len(text) : text[j] \in Whitespace

\* A build with a valid format whose command the session ran.
BuildCaptured ==
    call.op = "build" /\ call.format.text \in {"wheel", "sdist"}
        /\ call.args # <<>> /\ ~IsNone(call.output)

\* C4 as stated: for every valid format and every captured output, build
\* returns the last whitespace-delimited token of the output.
C4_ReturnsFinalToken ==
    BuildCaptured
        => /\ call.raised = ""
           /\ ~IsNone(call.value)
           /\ IsFinalToken(Get(call.value), Get(call.output))

\* C4 as amended: build returns the last whitespace-delimited token of a
\* captured output that holds a character other than whitespace; on an
\* output that holds none it raises IndexError and returns nothing.
C4_ReturnsFinalTokenWhenThereIsOne ==
    BuildCaptured
        => IF \E i \in 1..Len(Get(call.output)) :
                  Get(call.output)[i] \notin Whitespace
           THEN /\ call.raised = ""
                /\ ~IsNone(call.value)
                /\ IsFinalToken(Get(call.value), Get(call.output))
           ELSE /\ call.raised = "IndexError"
                /\ IsNone(call.value)

\* build returned f.whl for the output "Built f.whl\n".
C4_Witness ==
    /\ BuildCaptured
    /\ Get(call.output)
           = <<"B", "u", "i", "l", "t", SP, "f", ".", "w", "h", "l", LF>>
    /\ call.value = Some(<<"f", ".", "w", "h", "l">>)

=============================================================================
